---- MODULE Spec2Model ----
(***************************************************************************)
(* Oracle ConvoPilot: the SharePoint indexing / retrieval helper           *)
(* (lanchain_helper.py) and the Streamlit script that calls it (main.py).  *)
(*                                                                         *)
(* Every browser session runs the script main.py from top to bottom on     *)
(* each rerun; the sessions share the directory ./vector_index.  A script  *)
(* run is modelled as a sequence of steps (pc), so that the steps of two   *)
(* sessions interleave on the shared directory.                            *)
(*                                                                         *)
(* Texts are abstracted to a body identifier and a length; a chunk's       *)
(* page_content is a slice [of, from, to] of such a text.  Scores are      *)
(* distances in hundredths (0.6 is 60).                                    *)
(***************************************************************************)
EXTENDS Integers, Sequences, FiniteSets, TLC

VARIABLES
    disk,             \* the directory ./vector_index: dir, index.faiss, index.pkl
    pc,               \* per session: position in the script run
    ret,              \* per session: the call site of the running index_documents
    indexed,          \* st.session_state.indexed
    question,         \* the question of this script run (sequence of characters)
    fetched,          \* outcome of the last fetch_txt_files_from_sharepoint
    documents,        \* index_documents: documents
    chunks,           \* index_documents: chunks (the in-memory vectorstore content)
    vectorstore,      \* get_similar_answer_from_documents: vectorstore
    docs_with_scores, \* get_similar_answer_from_documents: docs_with_scores
    response,         \* main.py: response
    full_doc,         \* main.py: full_doc
    err,              \* the exception that ended the run, or "none"
    seen,             \* what os.path.exists answered at line 124 in this run
    loads,            \* FAISS.load_local attempts in this run
    builds,           \* the calls of index_documents made by the engine in this run
    saves             \* those of them whose save_local completed

vars == <<disk, pc, ret, indexed, question, fetched, documents, chunks, vectorstore,
          docs_with_scores, response, full_doc, err, seen, loads, builds, saves>>

-----------------------------------------------------------------------------
(* Bounds of the model                                                     *)

\* the largest number of files the SharePoint folder lists
MaxFiles == 2

\* the browser sessions (concurrent callers)
Sessions == {"s1", "s2"}

\* the distances the embedding model may report, in hundredths
ScoreValues == {30, 60}

-----------------------------------------------------------------------------
(* Program constants                                                       *)

ChunkSize == 500
ChunkOverlap == 50
TopK == 3
ScoreThreshold == 60
MinQuestionLen == 3

-----------------------------------------------------------------------------
(* Values                                                                  *)

\* Python's None
None == [none |-> TRUE]

\* the empty string ""
EmptyText == [body |-> "", len |-> 0]

NoFile == [file |-> "absent"]

EmptyDisk == [dir |-> FALSE, faiss |-> NoFile, pkl |-> NoFile]

\* the files a SharePoint folder may hold, in listing order
FilePool ==
    << [name |-> [stem |-> "a", ext |-> "txt"], text |-> [body |-> "A", len |-> 300]],
       [name |-> [stem |-> "b", ext |-> "txt"], text |-> [body |-> "B", len |-> 600]],
       [name |-> [stem |-> "n", ext |-> "pdf"], text |-> [body |-> "N", len |-> 700]],
       [name |-> [stem |-> "c", ext |-> "txt"], text |-> [body |-> "",  len |-> 0]] >>

\* the folder listings: runs of at most MaxFiles consecutive files of the pool
Folders ==
    { SubSeq(FilePool, w[1], w[2]) :
        w \in { v \in (1..Len(FilePool)) \X (0..Len(FilePool)) :
                  v[2] >= v[1] - 1 /\ v[2] - v[1] + 1 <= MaxFiles } }

\* the questions a user may submit; <<>> is "no question in this rerun"
Questions ==
    { <<>>,
      <<"h", "i">>,
      <<"H", "i", "?">>,
      <<" ", "o", "k", " ">>,
      <<"a", "~", "b", "c">>,
      <<"o", "k", "\n">> }

\* the outcomes of the Graph API calls of one fetch
FetchOutcomes == {"ok", "http_error", "auth_error"}

\* the call sites of index_documents: main.py:67, lanchain_helper.py:126 and :132
EngineSites == {"q126", "q132"}

-----------------------------------------------------------------------------
(* main.py:98, the validation of the question                              *)

LowerLetters ==
    << "a", "b", "c", "d", "e", "f", "g", "h", "i", "j", "k", "l", "m",
       "n", "o", "p", "q", "r", "s", "t", "u", "v", "w", "x", "y", "z" >>

UpperLetters ==
    << "A", "B", "C", "D", "E", "F", "G", "H", "I", "J", "K", "L", "M",
       "N", "O", "P", "Q", "R", "S", "T", "U", "V", "W", "X", "Y", "Z" >>

DigitChars == {"0", "1", "2", "3", "4", "5", "6", "7", "8", "9"}

\* \s, and what str.strip() removes
Whitespace == {" ", "\t", "\n", "\r", "\f"}

PunctChars ==
    {"?", ".", ",", "!", "@", "#", "$", "%", "^", "&", "*", "(", ")", "_", "+", "=", "-"}

\* the character class [a-zA-Z0-9\s?.,!@#$%^&*()_+=-]
AllowedChars ==
    {LowerLetters[i] : i \in 1..26} \cup {UpperLetters[i] : i \in 1..26}
      \cup DigitChars \cup Whitespace \cup PunctChars

\* re.match(r'^[...]*$', q): the star takes a prefix of allowed characters and
\* $ matches at the end of the string or just before a final newline
RegexMatch(q) ==
    \E k \in 0..Len(q) :
        /\ \A i \in 1..k : q[i] \in AllowedChars
        /\ \/ k = Len(q)
           \/ k = Len(q) - 1 /\ q[Len(q)] = "\n"

RECURSIVE LStrip(_)
LStrip(q) ==
    IF q = <<>> THEN q
    ELSE IF Head(q) \in Whitespace THEN LStrip(Tail(q)) ELSE q

RECURSIVE RStrip(_)
RStrip(q) ==
    IF q = <<>> THEN q
    ELSE IF q[Len(q)] \in Whitespace THEN RStrip(SubSeq(q, 1, Len(q) - 1)) ELSE q

\* str.strip()
Strip(q) == RStrip(LStrip(q))

\* str.lower()
LowerChar(c) ==
    IF \E i \in 1..26 : UpperLetters[i] = c
    THEN LowerLetters[CHOOSE i \in 1..26 : UpperLetters[i] = c]
    ELSE c

Lower(q) == [i \in 1..Len(q) |-> LowerChar(q[i])]

\* the length test of main.py:98 left out
RejectedCharsOnly(q) == ~RegexMatch(q)

\* the condition of main.py:98
Rejected(q) == ~RegexMatch(q) \/ Len(Strip(q)) < MinQuestionLen

-----------------------------------------------------------------------------
(* The messages                                                            *)

MsgInvalid == [kind |-> "could_not_understand"]

MsgNoInfo == [kind |-> "no_relevant_information"]

MsgSorry(query) == [kind |-> "no_offer", about |-> Lower(query)]

MsgAnswer(page_content) == [kind |-> "answer", text |-> page_content]

-----------------------------------------------------------------------------
(* lanchain_helper.py:71-79, the documents of a folder listing             *)

IsTxt(item) == item.name.ext = "txt"

MakeDocument(item) ==
    [page_content |-> item.text, source |-> item.name, full_content |-> item.text]

RECURSIVE FetchDocs(_)
FetchDocs(items) ==
    IF items = <<>> THEN <<>>
    ELSE (IF IsTxt(Head(items)) THEN <<MakeDocument(Head(items))>> ELSE <<>>)
           \o FetchDocs(Tail(items))

\* what fetch_txt_files_from_sharepoint returns when it returns
FetchResult(outcome, folder) ==
    IF outcome = "ok" THEN FetchDocs(folder) ELSE <<>>

-----------------------------------------------------------------------------
(* lanchain_helper.py:102-113, splitting and stamping                      *)

\* the windows of a text of length len without separators, from offset from
RECURSIVE Windows(_, _)
Windows(len, from) ==
    IF len = 0 THEN <<>>
    ELSE IF from + ChunkSize >= len THEN <<[from |-> from, to |-> len]>>
    ELSE <<[from |-> from, to |-> from + ChunkSize]>>
           \o Windows(len, from + ChunkSize - ChunkOverlap)

\* the chunks of one document: the metadata is copied onto every chunk
SplitOne(doc) ==
    LET w == Windows(doc.page_content.len, 0)
    IN  [i \in 1..Len(w) |->
            [page_content |-> [of |-> doc.page_content.body,
                               from |-> w[i].from, to |-> w[i].to],
             source |-> doc.source,
             full_content |-> doc.full_content]]

RECURSIVE split_documents(_)
split_documents(docs) ==
    IF docs = <<>> THEN <<>>
    ELSE SplitOne(Head(docs)) \o split_documents(Tail(docs))

\* every source mapped to the content of the first document
source_to_first(docs) ==
    [src \in {docs[i].source : i \in 1..Len(docs)} |-> docs[1].full_content]

\* the dict comprehension of line 105: a later document replaces an earlier
\* one of the same source
source_to_full(docs) ==
    [src \in {docs[i].source : i \in 1..Len(docs)} |->
        LET last == CHOOSE i \in 1..Len(docs) :
                       /\ docs[i].source = src
                       /\ \A j \in 1..Len(docs) : docs[j].source = src => j <= i
        IN  docs[last].full_content]

\* source_to_full.get(source, "")
Lookup(map, source) ==
    IF source \in DOMAIN map THEN map[source] ELSE EmptyText

\* lines 111-113
StampChunks(cs, map) ==
    [i \in 1..Len(cs) |-> [cs[i] EXCEPT !.full_content = Lookup(map, cs[i].source)]]

\* lines 102-113
MakeChunks(docs) == StampChunks(split_documents(docs), source_to_full(docs))

-----------------------------------------------------------------------------
(* lanchain_helper.py:135-146, search and decision                         *)

\* the position of p when the positions are ordered by ascending score
Rank(sc, p) ==
    1 + Cardinality({j \in DOMAIN sc : sc[j] < sc[p] \/ (sc[j] = sc[p] /\ j < p)})

Min(a, b) == IF a <= b THEN a ELSE b

\* similarity_search_with_score(query, k=3) on the stored chunks cs when the
\* embedding distances of the query to them are sc
SimilaritySearch(cs, sc) ==
    [r \in 1..Min(Len(sc), TopK) |->
        LET p == CHOOSE q \in DOMAIN sc : Rank(sc, q) = r
        IN  [doc |-> cs[p], score |-> sc[p]]]

\* the metadata lookup answering None
FullContentNone(doc) == None

\* doc.metadata.get("full_content", doc.page_content)
FullContent(doc) ==
    IF "full_content" \in DOMAIN doc THEN doc.full_content ELSE doc.page_content

\* the for loop of lines 140-144 from result i on: its body returns on either
\* branch, so only the first result is ever inspected
DecideFrom(query, dws, i) ==
    IF i > Len(dws) THEN <<MsgSorry(query), None>>
    ELSE IF dws[i].score < ScoreThreshold THEN <<MsgSorry(query), None>>
    ELSE <<MsgAnswer(dws[i].doc.page_content), FullContent(dws[i].doc)>>

\* lines 137-146
Decide(query, dws) ==
    IF dws = <<>> THEN <<MsgNoInfo, None>> ELSE DecideFrom(query, dws, 1)

-----------------------------------------------------------------------------
(* The shared directory                                                    *)

\* os.path.exists("./vector_index")
IndexExists == disk.dir

\* FAISS.load_local can deserialize the directory: both files are there.  It
\* does not compare them with each other.
Loadable(d) == d.dir /\ d.faiss # NoFile /\ d.pkl # NoFile

\* what save_local writes for the in-memory store of session s
IndexFile(s) == [chunks |-> chunks[s]]

-----------------------------------------------------------------------------
(* Initial state: a fresh deployment, no session has run yet               *)

Init ==
    /\ disk = EmptyDisk
    /\ pc = [s \in Sessions |-> "idle"]
    /\ ret = [s \in Sessions |-> "none"]
    /\ indexed = [s \in Sessions |-> FALSE]
    /\ question = [s \in Sessions |-> <<>>]
    /\ fetched = [s \in Sessions |-> "none"]
    /\ documents = [s \in Sessions |-> <<>>]
    /\ chunks = [s \in Sessions |-> <<>>]
    /\ vectorstore = [s \in Sessions |-> None]
    /\ docs_with_scores = [s \in Sessions |-> <<>>]
    /\ response = [s \in Sessions |-> None]
    /\ full_doc = [s \in Sessions |-> None]
    /\ err = [s \in Sessions |-> "none"]
    /\ seen = [s \in Sessions |-> "unset"]
    /\ loads = [s \in Sessions |-> 0]
    /\ builds = [s \in Sessions |-> <<>>]
    /\ saves = [s \in Sessions |-> {}]

-----------------------------------------------------------------------------
(* Calling, leaving and failing index_documents                            *)

\* a call of index_documents from the call site
EnterIndex(s, site) ==
    /\ pc' = [pc EXCEPT ![s] = "idx_build"]
    /\ ret' = [ret EXCEPT ![s] = site]
    /\ builds' = [builds EXCEPT ![s] = IF site \in EngineSites THEN Append(@, site) ELSE @]
    /\ fetched' = [fetched EXCEPT ![s] = "none"]
    /\ documents' = [documents EXCEPT ![s] = <<>>]
    /\ chunks' = [chunks EXCEPT ![s] = <<>>]

\* an exception e inside index_documents, raised when its fetch had outcome f
\* and its locals were docs and cs.  main.py:70 catches it for the auto-index
\* and the script goes on; nothing catches it inside
\* get_similar_answer_from_documents or at main.py:103, so there it ends the
\* script run (the failed frame is kept for the traceback)
RaiseInIndex(s, e, f, docs, cs) ==
    IF ret[s] = "auto"
    THEN /\ pc' = [pc EXCEPT ![s] = "process"]
         /\ ret' = [ret EXCEPT ![s] = "none"]
         /\ fetched' = [fetched EXCEPT ![s] = "none"]
         /\ documents' = [documents EXCEPT ![s] = <<>>]
         /\ chunks' = [chunks EXCEPT ![s] = <<>>]
         /\ UNCHANGED err
    ELSE /\ pc' = [pc EXCEPT ![s] = "done"]
         /\ err' = [err EXCEPT ![s] = e]
         /\ fetched' = [fetched EXCEPT ![s] = f]
         /\ documents' = [documents EXCEPT ![s] = docs]
         /\ chunks' = [chunks EXCEPT ![s] = cs]
         /\ UNCHANGED ret

\* where a completed index_documents returns to
ReturnPc(site) ==
    CASE site = "auto" -> "process"
      [] site = "q126" -> "q_load"
      [] OTHER -> "q_reload"

-----------------------------------------------------------------------------
(* main.py, one script run of a session                                    *)

\* a rerun of the script (main.py:1-61)
Rerun(s) ==
    /\ pc[s] = "idle"
    /\ pc' = [pc EXCEPT ![s] = "auto"]
    /\ UNCHANGED <<disk, ret, indexed, question, fetched, documents, chunks, vectorstore,
                   docs_with_scores, response, full_doc, err, seen, loads, builds,
                   saves>>

\* main.py:63-73
AutoIndex(s) ==
    /\ pc[s] = "auto"
    /\ IF ~indexed[s]
       THEN IF ~IndexExists
            THEN /\ EnterIndex(s, "auto")
                 /\ UNCHANGED indexed
            ELSE /\ indexed' = [indexed EXCEPT ![s] = TRUE]
                 /\ pc' = [pc EXCEPT ![s] = "process"]
                 /\ UNCHANGED <<ret, builds, fetched, documents, chunks>>
       ELSE /\ pc' = [pc EXCEPT ![s] = "process"]
            /\ UNCHANGED <<indexed, ret, builds, fetched, documents, chunks>>
    /\ UNCHANGED <<disk, question, vectorstore, docs_with_scores, response,
                   full_doc, err, seen, loads, saves>>

\* main.py:75-105 up to the call of the engine: q is what st.chat_input (or
\* the microphone) returned in this rerun, <<>> for nothing
ProcessQuestion(s, q) ==
    /\ pc[s] = "process"
    /\ question' = [question EXCEPT ![s] = q]
    /\ IF q = <<>>
       THEN /\ pc' = [pc EXCEPT ![s] = "done"]
            /\ UNCHANGED <<response, full_doc>>
       ELSE IF Rejected(q)
       THEN /\ response' = [response EXCEPT ![s] = MsgInvalid]
            /\ full_doc' = [full_doc EXCEPT ![s] = None]
            /\ pc' = [pc EXCEPT ![s] = "done"]
       ELSE /\ pc' = [pc EXCEPT ![s] = "q_check"]
            /\ UNCHANGED <<response, full_doc>>
    /\ UNCHANGED <<disk, ret, indexed, fetched, documents, chunks, vectorstore,
                   docs_with_scores, err, seen, loads, builds, saves>>

\* the end of the script run: the locals of the run are gone, the session
\* state (indexed) stays
EndRun(s) ==
    /\ pc[s] = "done"
    /\ pc' = [pc EXCEPT ![s] = "idle"]
    /\ ret' = [ret EXCEPT ![s] = "none"]
    /\ question' = [question EXCEPT ![s] = <<>>]
    /\ fetched' = [fetched EXCEPT ![s] = "none"]
    /\ documents' = [documents EXCEPT ![s] = <<>>]
    /\ chunks' = [chunks EXCEPT ![s] = <<>>]
    /\ vectorstore' = [vectorstore EXCEPT ![s] = None]
    /\ docs_with_scores' = [docs_with_scores EXCEPT ![s] = <<>>]
    /\ response' = [response EXCEPT ![s] = None]
    /\ full_doc' = [full_doc EXCEPT ![s] = None]
    /\ err' = [err EXCEPT ![s] = "none"]
    /\ seen' = [seen EXCEPT ![s] = "unset"]
    /\ loads' = [loads EXCEPT ![s] = 0]
    /\ builds' = [builds EXCEPT ![s] = <<>>]
    /\ saves' = [saves EXCEPT ![s] = {}]
    /\ UNCHANGED <<disk, indexed>>

-----------------------------------------------------------------------------
(* lanchain_helper.py:95-117, index_documents                              *)

\* the check of line 99 left out
NothingToIndexNever(docs) == FALSE

\* line 99: not documents
NothingToIndex(docs) == docs = <<>>

\* lines 98-115: fetch, check, split, stamp, embed and build the in-memory
\* store.  authenticate() is called before the try block, so its exception
\* leaves the function; every exception inside the try block makes the fetch
\* return [].  FAISS.from_documents fails on an empty list of chunks, and
\* when the embedding model does not work (embed_ok is false).
IdxBuildWith(s, embed_ok) ==
    /\ pc[s] = "idx_build"
    /\ \E outcome \in FetchOutcomes, folder \in Folders :
         IF outcome = "auth_error"
         THEN RaiseInIndex(s, "auth_failed", "auth_error", <<>>, <<>>)
         ELSE LET docs == FetchResult(outcome, folder)
                  got == IF docs = <<>> THEN "empty" ELSE "docs"
              IN  IF NothingToIndex(docs)
                  THEN RaiseInIndex(s, "nothing_to_index", got, docs, <<>>)
                  ELSE IF MakeChunks(docs) = <<>> \/ ~embed_ok
                  THEN RaiseInIndex(s, "build_failed", got, docs, MakeChunks(docs))
                  ELSE /\ fetched' = [fetched EXCEPT ![s] = got]
                       /\ documents' = [documents EXCEPT ![s] = docs]
                       /\ chunks' = [chunks EXCEPT ![s] = MakeChunks(docs)]
                       /\ pc' = [pc EXCEPT ![s] = "idx_save_faiss"]
                       /\ UNCHANGED <<ret, err>>
    /\ UNCHANGED <<disk, indexed, question, vectorstore, docs_with_scores,
                   response, full_doc, seen, loads, builds, saves>>

IdxBuild(s) == \E embed_ok \in BOOLEAN : IdxBuildWith(s, embed_ok)

\* line 116, first half of save_local: the directory is created if needed
\* and index.faiss is written in place
IdxSaveFaiss(s) ==
    /\ pc[s] = "idx_save_faiss"
    /\ disk' = [disk EXCEPT !.dir = TRUE, !.faiss = IndexFile(s)]
    /\ pc' = [pc EXCEPT ![s] = "idx_save_pkl"]
    /\ UNCHANGED <<ret, indexed, question, fetched, documents, chunks, vectorstore,
                   docs_with_scores, response, full_doc, err, seen, loads, builds,
                   saves>>

\* line 116, second half of save_local: index.pkl is written in place (it
\* cannot be when the directory has been removed meanwhile); then
\* index_documents returns to its caller (main.py:68 sets the flag)
IdxSavePkl(s) ==
    /\ pc[s] = "idx_save_pkl"
    /\ disk.dir
    /\ disk' = [disk EXCEPT !.pkl = IndexFile(s)]
    /\ saves' = [saves EXCEPT ![s] = IF ret[s] \in EngineSites THEN @ \cup {ret[s]} ELSE @]
    /\ pc' = [pc EXCEPT ![s] = ReturnPc(ret[s])]
    /\ indexed' = [indexed EXCEPT ![s] = IF ret[s] = "auto" THEN TRUE ELSE @]
    /\ ret' = [ret EXCEPT ![s] = "none"]
    /\ fetched' = [fetched EXCEPT ![s] = "none"]
    /\ documents' = [documents EXCEPT ![s] = <<>>]
    /\ chunks' = [chunks EXCEPT ![s] = <<>>]
    /\ UNCHANGED <<question, vectorstore, docs_with_scores, response, full_doc, err,
                   seen, loads, builds>>

\* line 116: save_local is interrupted by an I/O error before its next write
IdxSaveInterrupted(s) ==
    /\ pc[s] \in {"idx_save_faiss", "idx_save_pkl"}
    /\ RaiseInIndex(s, "save_failed", fetched[s], documents[s], chunks[s])
    /\ UNCHANGED <<disk, indexed, question, vectorstore, docs_with_scores,
                   response, full_doc, seen, loads, builds, saves>>

-----------------------------------------------------------------------------
(* lanchain_helper.py:120-146, get_similar_answer_from_documents           *)

\* the index rebuilt on every query
IndexMissingAlways(s) == TRUE

\* the session flag consulted instead of the directory alone
IndexMissingByFlag(s) == ~indexed[s] /\ ~IndexExists

\* line 124: the condition under which the index is built first
IndexMissing(s) == ~IndexExists

\* lines 124-126
QCheck(s) ==
    /\ pc[s] = "q_check"
    /\ seen' = [seen EXCEPT ![s] = IF IndexExists THEN "present" ELSE "missing"]
    /\ IF IndexMissing(s)
       THEN EnterIndex(s, "q126")
       ELSE /\ pc' = [pc EXCEPT ![s] = "q_load"]
            /\ UNCHANGED <<ret, builds, fetched, documents, chunks>>
    /\ UNCHANGED <<disk, indexed, question, vectorstore, docs_with_scores,
                   response, full_doc, err, loads, saves>>

\* lines 128-132: the first load; ok is whether storage and embedder work
QLoadWith(s, ok) ==
    /\ pc[s] = "q_load"
    /\ loads' = [loads EXCEPT ![s] = @ + 1]
    /\ IF ok /\ Loadable(disk)
       THEN /\ vectorstore' = [vectorstore EXCEPT ![s] =
                                  [faiss |-> disk.faiss, pkl |-> disk.pkl]]
            /\ pc' = [pc EXCEPT ![s] = "q_search"]
            /\ UNCHANGED <<ret, builds, fetched, documents, chunks>>
       ELSE /\ EnterIndex(s, "q132")
            /\ UNCHANGED vectorstore
    /\ UNCHANGED <<disk, indexed, question, docs_with_scores, response, full_doc,
                   err, seen, saves>>

QLoad(s) == \E ok \in BOOLEAN : QLoadWith(s, ok)

\* a failed second load answered by another rebuild and load
QReloadRetrying(s, ok) ==
    /\ pc[s] = "q_reload"
    /\ loads[s] < 4
    /\ loads' = [loads EXCEPT ![s] = @ + 1]
    /\ IF ok /\ Loadable(disk)
       THEN /\ vectorstore' = [vectorstore EXCEPT ![s] =
                                  [faiss |-> disk.faiss, pkl |-> disk.pkl]]
            /\ pc' = [pc EXCEPT ![s] = "q_search"]
            /\ UNCHANGED <<ret, builds, fetched, documents, chunks>>
       ELSE /\ EnterIndex(s, "q132")
            /\ UNCHANGED vectorstore
    /\ UNCHANGED <<disk, indexed, question, docs_with_scores, response, full_doc,
                   err, seen, saves>>

\* line 133: the second load, inside the except handler: its exception is
\* not caught
QReloadWith(s, ok) ==
    /\ pc[s] = "q_reload"
    /\ loads' = [loads EXCEPT ![s] = @ + 1]
    /\ IF ok /\ Loadable(disk)
       THEN /\ vectorstore' = [vectorstore EXCEPT ![s] =
                                  [faiss |-> disk.faiss, pkl |-> disk.pkl]]
            /\ pc' = [pc EXCEPT ![s] = "q_search"]
            /\ UNCHANGED err
       ELSE /\ pc' = [pc EXCEPT ![s] = "done"]
            /\ err' = [err EXCEPT ![s] = "load_failed"]
            /\ UNCHANGED vectorstore
    /\ UNCHANGED <<disk, ret, indexed, question, fetched, documents, chunks,
                   docs_with_scores, response, full_doc, seen, builds, saves>>

QReload(s) == \E ok \in BOOLEAN : QReloadWith(s, ok)

\* line 135: the vectors come from index.faiss, the documents from index.pkl;
\* a vector without a document in index.pkl raises
QSearch(s) ==
    /\ pc[s] = "q_search"
    /\ LET vecs == vectorstore[s].faiss.chunks
           docs == vectorstore[s].pkl.chunks
       IN  \E sc \in [1..Len(vecs) -> ScoreValues] :
             IF \E p \in 1..Len(vecs) : Rank(sc, p) <= TopK /\ p > Len(docs)
             THEN /\ pc' = [pc EXCEPT ![s] = "done"]
                  /\ err' = [err EXCEPT ![s] = "search_failed"]
                  /\ UNCHANGED docs_with_scores
             ELSE /\ docs_with_scores' = [docs_with_scores EXCEPT ![s] =
                                             SimilaritySearch(docs, sc)]
                  /\ pc' = [pc EXCEPT ![s] = "q_decide"]
                  /\ UNCHANGED err
    /\ UNCHANGED <<disk, ret, indexed, question, fetched, documents, chunks,
                   vectorstore, response, full_doc, seen, loads, builds, saves>>

\* lines 137-146, and main.py:103 receiving the pair; the locals of the
\* function are gone when it returns
QDecide(s) ==
    /\ pc[s] = "q_decide"
    /\ LET r == Decide(question[s], docs_with_scores[s])
       IN  /\ response' = [response EXCEPT ![s] = r[1]]
           /\ full_doc' = [full_doc EXCEPT ![s] = r[2]]
    /\ pc' = [pc EXCEPT ![s] = "done"]
    /\ vectorstore' = [vectorstore EXCEPT ![s] = None]
    /\ docs_with_scores' = [docs_with_scores EXCEPT ![s] = <<>>]
    /\ UNCHANGED <<disk, ret, indexed, question, fetched, documents, chunks, err,
                   seen, loads, builds, saves>>

-----------------------------------------------------------------------------
(* The environment of ./vector_index                                       *)

\* the directory is removed from outside (ephemeral storage, an operator)
RemoveIndex ==
    /\ disk.dir
    /\ disk' = EmptyDisk
    /\ UNCHANGED <<pc, ret, indexed, question, fetched, documents, chunks,
                   vectorstore, docs_with_scores, response, full_doc, err, seen,
                   loads, builds, saves>>

\* the same, between script runs only
RemoveIndexIdle ==
    /\ \A s \in Sessions : pc[s] = "idle"
    /\ RemoveIndex

-----------------------------------------------------------------------------
(* Specifications                                                          *)

\* concurrent sessions, storage and embedder may fail
Next ==
    \/ \E s \in Sessions :
         \/ Rerun(s)
         \/ AutoIndex(s)
         \/ \E q \in Questions : ProcessQuestion(s, q)
         \/ EndRun(s)
         \/ IdxBuild(s)
         \/ IdxSaveFaiss(s)
         \/ IdxSavePkl(s)
         \/ IdxSaveInterrupted(s)
         \/ QCheck(s)
         \/ QLoad(s)
         \/ QReload(s)
         \/ QSearch(s)
         \/ QDecide(s)
    \/ RemoveIndex

Spec == Init /\ [][Next]_vars

\* one session alone, storage and embedder work
NextSolo ==
    \/ Rerun("s1")
    \/ AutoIndex("s1")
    \/ \E q \in Questions : ProcessQuestion("s1", q)
    \/ EndRun("s1")
    \/ IdxBuildWith("s1", TRUE)
    \/ IdxSaveFaiss("s1")
    \/ IdxSavePkl("s1")
    \/ QCheck("s1")
    \/ QLoadWith("s1", TRUE)
    \/ QSearch("s1")
    \/ QDecide("s1")
    \/ RemoveIndexIdle

SpecSolo == Init /\ [][NextSolo]_vars

-----------------------------------------------------------------------------
(* Properties                                                              *)

Count(seq, x) == Cardinality({i \in DOMAIN seq : seq[i] = x})

\* session s is inside index_documents
InIndexDocuments(s) == pc[s] \in {"idx_build", "idx_save_faiss", "idx_save_pkl"}

\* the engine has returned a (message, document) pair to session s
Answered(s) == pc[s] = "done" /\ seen[s] # "unset" /\ err[s] = "none"

\* the results of dws whose score is strictly below the threshold
BelowThreshold(dws) == {i \in 1..Len(dws) : dws[i].score < ScoreThreshold}

First(S) == CHOOSE i \in S : \A j \in S : i <= j

\* C1: when the k-nearest-neighbour result set is not empty, the query returns
\* an answer iff some result scores strictly below the threshold: the answer
\* is built from the text of the first such result in ascending-score order
\* and the document is its full text; otherwise it returns the "no relevant
\* result" message and no document.
C1_AcceptsBelowThreshold ==
    [][\A s \in Sessions :
         (pc[s] = "q_decide" /\ pc'[s] = "done" /\ docs_with_scores[s] # <<>>) =>
            LET dws == docs_with_scores[s]
            IN  IF BelowThreshold(dws) # {}
                THEN /\ response'[s] =
                          MsgAnswer(dws[First(BelowThreshold(dws))].doc.page_content)
                     /\ full_doc'[s] = dws[First(BelowThreshold(dws))].doc.full_content
                ELSE /\ response'[s] = MsgSorry(question[s])
                     /\ full_doc'[s] = None]_vars

\* C2: every pair the query operation returns is a no-match message with no
\* document, or an answer message with a document.
C2_ResultConsistency ==
    \A s \in Sessions :
        seen[s] # "unset" =>
            \/ response[s] = None /\ full_doc[s] = None
            \/ /\ response[s] # None
               /\ response[s].kind \in {"no_relevant_information", "no_offer"}
               /\ full_doc[s] = None
            \/ /\ response[s] # None
               /\ response[s].kind = "answer"
               /\ full_doc[s] # None

C2_Witness ==
    \E s \in Sessions :
        /\ Answered(s)
        /\ response[s] # None
        /\ response[s].kind = "answer"
        /\ full_doc[s] # None

\* C3: a single caller on working storage: a query that finds no index runs
\* index_documents exactly once, and its save is complete before the search;
\* it fails only if the fetch gave nothing that can be indexed.  A query that
\* finds the index runs no rebuild.
C3_OneBuildThenNone ==
    \A s \in Sessions :
        /\ seen[s] = "missing" =>
              /\ builds[s] = <<"q126">>
              /\ (pc[s] \in {"q_load", "q_search", "q_decide"} \/ Answered(s))
                    => saves[s] = {"q126"}
              /\ pc[s] = "done" =>
                    \/ Answered(s) /\ response[s] # None
                    \/ /\ err[s] # "none"
                       /\ saves[s] = {}
                       /\ \A i \in DOMAIN documents[s] :
                             documents[s][i].page_content.len = 0
        /\ seen[s] = "present" => builds[s] = <<>> /\ saves[s] = {}

C3_Witness ==
    \E s \in Sessions :
        /\ Answered(s)
        /\ seen[s] = "missing"
        /\ builds[s] = <<"q126">>
        /\ saves[s] = {"q126"}
        /\ response[s] # None

\* C4: in one query there are at most two loads and at most one rebuild after
\* a failed load; the second load follows the completed rebuild; when the
\* second load fails the query ends with that error and returns nothing.
C4_BoundedRetry ==
    \A s \in Sessions :
        /\ loads[s] <= 2
        /\ Count(builds[s], "q132") <= 1
        /\ Count(builds[s], "q132") = 1 => loads[s] >= 1
        /\ loads[s] = 2 => Count(builds[s], "q132") = 1 /\ "q132" \in saves[s]
        /\ pc[s] = "q_reload" => loads[s] = 1 /\ "q132" \in saves[s]
        /\ err[s] = "load_failed" =>
              /\ pc[s] = "done"
              /\ loads[s] = 2
              /\ response[s] = None
              /\ full_doc[s] = None

C4_Witness ==
    \E s \in Sessions :
        /\ pc[s] = "done"
        /\ seen[s] = "present"
        /\ err[s] = "load_failed"
        /\ loads[s] = 2
        /\ Count(builds[s], "q132") = 1

\* C5: index builds against ./vector_index are serialized: no two sessions
\* are inside index_documents at the same time.
C5_SerializedRebuilds ==
    \A s, t \in Sessions :
        s # t => ~(InIndexDocuments(s) /\ InIndexDocuments(t))

\* C6: when the fetch of a rebuild made by a query returns no document,
\* index_documents raises "nothing to index" before it chunks or saves, and
\* the query ends with that error and returns nothing.
C6_NothingToIndexIsFatal ==
    \A s \in Sessions :
        fetched[s] = "empty" =>
            /\ ret[s] \in EngineSites
            /\ pc[s] = "done"
            /\ err[s] = "nothing_to_index"
            /\ chunks[s] = <<>>
            /\ ret[s] \notin saves[s]
            /\ response[s] = None
            /\ full_doc[s] = None

C6_Witness ==
    \E s \in Sessions :
        /\ fetched[s] = "empty"
        /\ documents[s] = <<>>
        /\ ret[s] = "q126"
        /\ pc[s] = "done"
        /\ err[s] = "nothing_to_index"

\* C7: a save that was interrupted or failed leaves no partially written
\* index that a load opens: whenever no build is in progress, the index.faiss
\* and the index.pkl that a successful load reads come from one and the same
\* save.
C7_AtomicSave ==
    [][\A s \in Sessions :
         (/\ pc[s] \in {"q_load", "q_reload"}
          /\ pc'[s] = "q_search"
          /\ \A t \in Sessions : ~InIndexDocuments(t))
            => disk.faiss = disk.pkl]_vars

\* C8: every chunk index_documents produces carries the complete text of the
\* document it was split from, the document of the chunk's source; never the
\* empty text or the text of another document.
C8_FullContentRoundTrip ==
    \A s \in Sessions :
        \A i \in DOMAIN chunks[s] :
            LET c == chunks[s][i]
                owners == {j \in DOMAIN documents[s] :
                              documents[s][j].source = c.source}
            IN  /\ owners # {}
                /\ \A j \in owners :
                      /\ c.full_content = documents[s][j].page_content
                      /\ c.page_content.of = documents[s][j].page_content.body
                /\ c.full_content # EmptyText

C8_Witness ==
    \E s \in Sessions :
        /\ pc[s] = "idx_save_faiss"
        /\ \E i, j \in DOMAIN chunks[s] :
              /\ chunks[s][i].source # chunks[s][j].source
              /\ chunks[s][i].full_content # chunks[s][j].full_content

\* every character is in the allowed set and the stripped length is at least 3
ValidQuestion(q) ==
    /\ \A i \in 1..Len(q) : q[i] \in AllowedChars
    /\ Len(Strip(q)) >= 3

\* session s is inside get_similar_answer_from_documents, or was in this run
EngineInvoked(s) ==
    \/ pc[s] \in {"q_check", "q_load", "q_reload", "q_search", "q_decide"}
    \/ seen[s] # "unset"
    \/ loads[s] > 0
    \/ builds[s] # <<>>
    \/ vectorstore[s] # None

\* C9: the engine is invoked only for a question that passes validation; a
\* rejected question gets the fixed response and no document, and the engine
\* does not load or rebuild for it.
C9_ValidationGatesEngine ==
    \A s \in Sessions :
        /\ EngineInvoked(s) => ValidQuestion(question[s])
        /\ (pc[s] = "done" /\ question[s] # <<>> /\ ~ValidQuestion(question[s])) =>
              /\ response[s] = MsgInvalid
              /\ full_doc[s] = None
              /\ ~EngineInvoked(s)
              /\ saves[s] = {}

C9_Witness ==
    \E s \in Sessions :
        /\ pc[s] = "done"
        /\ question[s] # <<>>
        /\ ~ValidQuestion(question[s])
        /\ response[s] = MsgInvalid
        /\ full_doc[s] = None

\* C10: whatever the session flag says, a query rebuilds first exactly when
\* the directory does not exist at the time it checks, and the auto-index
\* rebuilds only when the directory does not exist.
C10_RebuildFromDiskState ==
    [][\A s \in Sessions :
         /\ (pc[s] = "q_check" /\ pc'[s] # "q_check") =>
               /\ pc'[s] = "idx_build" <=> ~disk.dir
               /\ pc'[s] = "idx_build" => builds'[s] = <<"q126">>
               /\ pc'[s] # "idx_build" => pc'[s] = "q_load" /\ builds'[s] = <<>>
         /\ (pc[s] = "auto" /\ pc'[s] = "idx_build") => ~disk.dir]_vars

C10_Witness ==
    \E s \in Sessions :
        /\ indexed[s]
        /\ ~disk.dir
        /\ seen[s] = "missing"
        /\ pc[s] = "idx_build"
        /\ builds[s] = <<"q126">>

====
